---- MODULE Spec2Model ----
(***************************************************************************)
(* Model of the pagerduty-operator helpers:                                *)
(*   pkg/pagerduty/service.go  - ParsePDConfig, CreateService,             *)
(*                               DeleteService                             *)
(*   pkg/vault/connection.go   - GetVaultSecret, queryVault, saveSecret    *)
(*                                                                         *)
(* Strings that the code concatenates, scans or parses are sequences of    *)
(* one-character (or one-token) strings; opaque identifiers are numbers.   *)
(* Three specifications share the variables:                               *)
(*   SpecProvision - concurrent CreateService / DeleteService callers      *)
(*                   against one PagerDuty account                         *)
(*   SpecVault     - concurrent GetVaultSecret callers against one /tmp    *)
(*   SpecParse     - ParsePDConfig applied to every Secret of a bounded    *)
(*                   family                                                *)
(***************************************************************************)
EXTENDS Integers, Sequences, FiniteSets, TLC

VARIABLES
    \* ---- PagerDuty (service.go) ----
    services,      \* upstream: set of [id, name]
    integrations,  \* upstream: set of [id, svc]
    nextID,        \* upstream: next object id to hand out
    data,          \* per caller: the Data struct's ServiceID / IntegrationID
    pc,            \* per caller: position inside CreateService
    newSvc,        \* per caller: local newSvc (0 = nil)
    err,           \* per caller: local err of the CreateService call
    hist,          \* per caller: what the current call has done so far
    calls,         \* number of CreateService calls started
    okCalls,       \* number of CreateService calls that returned success
    anyDeleted,    \* whether DeleteService has removed a service
    createdSvcs,   \* ids of the services CreateService calls have created
    \* ---- ParsePDConfig (service.go) ----
    pdAPISecret,   \* the Secret read by ParsePDConfig: fetched?, Data
    parsed,        \* outcome of ParsePDConfig on pdAPISecret
    \* ---- Vault (connection.go) ----
    now,           \* time.Now(), in ticks of TickHours hours
    files,         \* /tmp: set of [name, content, mtime, src]
    vault,         \* Vault: full path -> what Logical().Read returns
    faultsLeft,    \* how many more filesystem calls may fail in this run
    vpc,           \* per caller: position inside GetVaultSecret
    vdata,         \* per caller: the Data struct (Mount, Property, Path)
    secret,        \* per caller: local secret of GetVaultSecret
    fd,            \* per caller: whether its open file is still the one
                   \* the path names
    vh             \* per caller: what the current call has done so far

pdVars == <<services, integrations, nextID, data, pc, newSvc, err, hist,
            calls, okCalls, anyDeleted, createdSvcs>>
parseVars == <<pdAPISecret, parsed>>
vaultVars == <<now, files, vault, faultsLeft, vpc, vdata, secret, fd, vh>>
vars == <<pdVars, parseVars, vaultVars>>
notPD == <<parseVars, vaultVars>>
notParse == <<pdVars, vaultVars>>
notVault == <<pdVars, parseVars>>

\* ------------------------------------------------------------------------
\* Bounds
\* ------------------------------------------------------------------------
MaxCalls == 3

Procs == {"p1", "p2"}

\* ------------------------------------------------------------------------
\* PagerDuty: Data fields fixed for the cluster, and the derived name
\* ------------------------------------------------------------------------
NoID == 0

servicePrefix == <<"osd">>
ClusterID == <<"c1">>
BaseDomain == <<"d">>

\* service.go:181
ServiceName(prefix, cluster, domain) ==
    prefix \o <<"-">> \o cluster \o <<".">> \o domain \o <<"-hive-cluster">>

DerivedName == ServiceName(servicePrefix, ClusterID, BaseDomain)

\* a different service whose name contains the derived name, so that a
\* ListServices query for the derived name returns it too
NearName == DerivedName \o <<"-old">>

ErrPolicy == <<"Escalation policy not found in PagerDuty">>
ErrDuplicate == <<"HTTP response failed with status code 400: ", "Name has already been taken">>
ErrUpstream == <<"HTTP response failed with status code 500">>
NoErr == <<>>

\* strings.Contains(err.Error(), "Name has already been taken"), service.go:192
IsNameTaken(e) == \E i \in 1..Len(e) : e[i] = "Name has already been taken"

\* ListServiceOptions.Query: the upstream returns the services whose name
\* contains the query
Contains(name, q) ==
    \E i \in 0..(Len(name) - Len(q)) : SubSeq(name, i + 1, i + Len(q)) = q

RECURSIVE SortByID(_)
SortByID(S) ==
    IF S = {} THEN <<>>
    ELSE LET m == CHOOSE s \in S : \A t \in S : s.id <= t.id
         IN <<m>> \o SortByID(S \ {m})

\* the page ListServices returns for a query
ListResult(q) == SortByID({s \in services : Contains(s.name, q)})

\* faulty variant: adopts the first listed service, whatever its name
FirstListed(listed, name) ==
    IF listed = <<>> THEN NoID ELSE Head(listed).id

\* faulty variant: compares with strings.Contains instead of ==
RECURSIVE FirstContaining(_, _)
FirstContaining(listed, name) ==
    IF listed = <<>> THEN NoID
    ELSE IF Contains(Head(listed).name, name) THEN Head(listed).id
    ELSE FirstContaining(Tail(listed), name)

\* the scan of service.go:202-209: first listed service whose name equals
\* the wanted name, nil (NoID) when there is none
RECURSIVE FirstExact(_, _)
FirstExact(listed, name) ==
    IF listed = <<>> THEN NoID
    ELSE IF Head(listed).name = name THEN Head(listed).id
    ELSE FirstExact(Tail(listed), name)

NoHist == [policyFailed |-> FALSE, createTried |-> FALSE, listTried |-> FALSE,
           intTried |-> 0, dupErr |-> FALSE, listOk |-> FALSE,
           exactID |-> NoID, createdSvc |-> NoID, createdInt |-> NoID,
           intOn |-> NoID, pre |-> [ServiceID |-> NoID, IntegrationID |-> NoID],
           result |-> "none", ret |-> NoID]

PDInit ==
    /\ services \in SUBSET {[id |-> 1, name |-> NearName],
                            [id |-> 2, name |-> DerivedName]}
    /\ integrations = {}
    /\ nextID = 3
    /\ data \in [Procs -> {[ServiceID |-> NoID, IntegrationID |-> NoID],
                           [ServiceID |-> 2, IntegrationID |-> NoID]}]
    /\ pc = [p \in Procs |-> "idle"]
    /\ newSvc = [p \in Procs |-> NoID]
    /\ err = [p \in Procs |-> NoErr]
    /\ hist = [p \in Procs |-> NoHist]
    /\ calls = 0
    /\ okCalls = 0
    /\ anyDeleted = FALSE
    /\ createdSvcs = {}

PDIdle ==
    /\ services = {}
    /\ integrations = {}
    /\ nextID = 3
    /\ data = [p \in Procs |-> [ServiceID |-> NoID, IntegrationID |-> NoID]]
    /\ pc = [p \in Procs |-> "idle"]
    /\ newSvc = [p \in Procs |-> NoID]
    /\ err = [p \in Procs |-> NoErr]
    /\ hist = [p \in Procs |-> NoHist]
    /\ calls = 0
    /\ okCalls = 0
    /\ anyDeleted = FALSE
    /\ createdSvcs = {}

\* entry of CreateService, service.go:172-173
Begin(p) ==
    /\ pc[p] = "idle"
    /\ calls < MaxCalls
    /\ calls' = calls + 1
    /\ pc' = [pc EXCEPT ![p] = "policy"]
    /\ newSvc' = [newSvc EXCEPT ![p] = NoID]
    /\ err' = [err EXCEPT ![p] = NoErr]
    /\ hist' = [hist EXCEPT ![p] = [NoHist EXCEPT !.pre = data[p]]]
    /\ UNCHANGED <<services, integrations, nextID, data, okCalls, anyDeleted,
                   createdSvcs>>
    /\ UNCHANGED notPD

\* faulty variant: the lookup's error is ignored
AfterPolicyIgnoringErr(found) == "create"

\* where the call goes after client.GetEscalationPolicy, service.go:175-178
AfterPolicy(found) == IF found THEN "create" ELSE "done"

\* client.GetEscalationPolicy, service.go:175-178
GetEscalationPolicy(p) ==
    /\ pc[p] = "policy"
    /\ \E found \in BOOLEAN :
          /\ pc' = [pc EXCEPT ![p] = AfterPolicy(found)]
          /\ err' = [err EXCEPT ![p] = IF found THEN NoErr ELSE ErrPolicy]
          /\ hist' = [hist EXCEPT ![p].policyFailed = ~found,
                                  ![p].result = IF found THEN "none" ELSE "err"]
    /\ UNCHANGED <<services, integrations, nextID, data, newSvc, calls,
                   okCalls, anyDeleted, createdSvcs>>
    /\ UNCHANGED notPD

\* faulty variant: the ID is not stored before the integration is created
StoredServiceIDDropped(svc) == NoID

\* the ID that data.ServiceID receives at service.go:215
StoredServiceID(svc) == svc

\* client.CreateService, service.go:190-194 and 215 on success.  The
\* upstream rejects a name that is taken; any call may also fail otherwise.
UpstreamCreateService(p) ==
    /\ pc[p] = "create"
    /\ \/ \* created
          /\ ~\E s \in services : s.name = DerivedName
          /\ services' = services \cup {[id |-> nextID, name |-> DerivedName]}
          /\ nextID' = nextID + 1
          /\ newSvc' = [newSvc EXCEPT ![p] = nextID]
          /\ data' = [data EXCEPT ![p].ServiceID = StoredServiceID(nextID)]
          /\ hist' = [hist EXCEPT ![p].createTried = TRUE,
                                  ![p].createdSvc = nextID]
          /\ createdSvcs' = createdSvcs \cup {nextID}
          /\ pc' = [pc EXCEPT ![p] = "integration"]
          /\ UNCHANGED err
       \/ \* duplicate name
          /\ \E s \in services : s.name = DerivedName
          /\ err' = [err EXCEPT ![p] = ErrDuplicate]
          /\ hist' = [hist EXCEPT ![p].createTried = TRUE,
                                  ![p].dupErr = IsNameTaken(ErrDuplicate)]
          /\ pc' = [pc EXCEPT ![p] =
                       IF IsNameTaken(ErrDuplicate) THEN "list" ELSE "done"]
          /\ UNCHANGED <<services, nextID, newSvc, data, createdSvcs>>
       \/ \* any other upstream failure
          /\ err' = [err EXCEPT ![p] = ErrUpstream]
          /\ hist' = [hist EXCEPT ![p].createTried = TRUE,
                                  ![p].result = "err"]
          /\ pc' = [pc EXCEPT ![p] =
                       IF IsNameTaken(ErrUpstream) THEN "list" ELSE "done"]
          /\ UNCHANGED <<services, nextID, newSvc, data, createdSvcs>>
    /\ UNCHANGED <<integrations, calls, okCalls, anyDeleted>>
    /\ UNCHANGED notPD

\* client.ListServices and the scan, service.go:195-215
ListServices(p) ==
    /\ pc[p] = "list"
    /\ \/ \* newerr != nil: the duplicate-name error is returned
          /\ hist' = [hist EXCEPT ![p].listTried = TRUE, ![p].result = "err"]
          /\ pc' = [pc EXCEPT ![p] = "done"]
          /\ UNCHANGED <<newSvc, data>>
       \/ LET listed == ListResult(DerivedName)
              found == FirstExact(listed, DerivedName)
              exact == {s \in services : s.name = DerivedName}
          IN /\ newSvc' = [newSvc EXCEPT ![p] = found]
             /\ hist' = [hist EXCEPT
                    ![p].listTried = TRUE,
                    ![p].listOk = TRUE,
                    ![p].exactID = IF exact = {} THEN NoID
                                   ELSE (CHOOSE s \in exact : TRUE).id,
                    ![p].result = IF found = NoID THEN "err" ELSE "none"]
             /\ IF found = NoID
                  THEN /\ pc' = [pc EXCEPT ![p] = "done"]
                       /\ UNCHANGED data
                  ELSE /\ pc' = [pc EXCEPT ![p] = "integration"]
                       /\ data' = [data EXCEPT
                                     ![p].ServiceID = StoredServiceID(found)]
    /\ UNCHANGED <<services, integrations, nextID, err, calls, okCalls,
                   anyDeleted, createdSvcs>>
    /\ UNCHANGED notPD

\* client.CreateIntegration, service.go:217-228
CreateIntegration(p) ==
    /\ pc[p] = "integration"
    /\ \/ \* created
          /\ \E s \in services : s.id = newSvc[p]
          /\ integrations' = integrations \cup {[id |-> nextID, svc |-> newSvc[p]]}
          /\ nextID' = nextID + 1
          /\ data' = [data EXCEPT ![p].IntegrationID = nextID]
          /\ hist' = [hist EXCEPT ![p].intTried = @ + 1,
                                  ![p].createdInt = nextID,
                                  ![p].intOn = newSvc[p],
                                  ![p].result = "ok",
                                  ![p].ret = nextID]
          /\ okCalls' = okCalls + 1
          /\ UNCHANGED err
       \/ \* upstream failure (service gone, network, ...)
          /\ err' = [err EXCEPT ![p] = ErrUpstream]
          /\ hist' = [hist EXCEPT ![p].intTried = @ + 1,
                                  ![p].intOn = newSvc[p],
                                  ![p].result = "err"]
          /\ UNCHANGED <<integrations, nextID, data, okCalls>>
    /\ pc' = [pc EXCEPT ![p] = "done"]
    /\ UNCHANGED <<services, newSvc, calls, anyDeleted, createdSvcs>>
    /\ UNCHANGED notPD

\* the caller gets the result back
Return(p) ==
    /\ pc[p] = "done"
    /\ pc' = [pc EXCEPT ![p] = "idle"]
    /\ UNCHANGED <<services, integrations, nextID, data, newSvc, err, hist,
                   calls, okCalls, anyDeleted, createdSvcs>>
    /\ UNCHANGED notPD

\* DeleteService, service.go:232-236
DeleteService(p) ==
    /\ pc[p] = "idle"
    /\ data[p].ServiceID # NoID
    /\ \E s \in services : s.id = data[p].ServiceID
    /\ services' = {s \in services : s.id # data[p].ServiceID}
    /\ integrations' = {i \in integrations : i.svc # data[p].ServiceID}
    /\ anyDeleted' = TRUE
    /\ UNCHANGED <<nextID, data, pc, newSvc, err, hist, calls, okCalls,
                   createdSvcs>>
    /\ UNCHANGED notPD


\* ------------------------------------------------------------------------
\* ParsePDConfig (service.go:43-125)
\* ------------------------------------------------------------------------
\* longest generated value of a timeout key
MaxStrLen == 2

Alphabet == {"0", "9", "a"}

Digits == <<"0", "1", "2", "3", "4", "5", "6", "7", "8", "9">>

RECURSIVE StringsUpTo(_)
StringsUpTo(n) ==
    IF n = 0 THEN {<<>>}
    ELSE LET shorter == StringsUpTo(n - 1)
         IN shorter \cup {Append(t, c) : t \in {u \in shorter : Len(u) = n - 1},
                                         c \in Alphabet}

\* values around the 32-bit limit and the shapes ParseUint rejects
SpecialStrings ==
    {<<"3", "0", "0">>,
     <<"4", "2", "9", "4", "9", "6", "7", "2", "9", "5">>,
     <<"4", "2", "9", "4", "9", "6", "7", "2", "9", "6">>,
     <<"0", "4", "2", "9", "4", "9", "6", "7", "2", "9", "5">>,
     <<"9", "9", "9", "9", "9", "9", "9", "9", "9", "9", "9">>,
     <<"+", "1">>, <<"-", "1">>, <<"1", "_", "0">>, <<"1", ".", "5">>}

\* a key of Secret.Data: absent, or present with a value
Missing == [has |-> FALSE, v |-> <<>>]
Present(v) == [has |-> TRUE, v |-> v]

KeyVals == {Missing, Present(<<>>), Present(<<"k">>)}
TimeoutVals == {Missing} \cup {Present(t) : t \in StringsUpTo(MaxStrLen) \cup SpecialStrings}
PrefixVals == {Missing, Present(<<>>), Present(<<"s", "r", "e">>)}

ErrGet == <<"secrets \"pagerduty-api-key\" not found">>
ErrSyntax == <<"strconv.ParseUint: invalid syntax">>
ErrRange == <<"strconv.ParseUint: value out of range">>

\* getSecretKey, service.go:43-54
getSecretKey(d, key) ==
    IF ~d[key].has THEN [val |-> <<>>, err |-> <<key, " does not exist">>]
    ELSE IF Len(d[key].v) <= 0 THEN [val |-> <<>>, err |-> <<key, " is empty">>]
    ELSE [val |-> d[key].v, err |-> NoErr]

\* numbers up to 2^32 - 1 = 42949 * 10^5 + 67295 are kept as two base-10^5
\* limbs
Limb == 100000
MaxUint32 == [hi |-> 42949, lo |-> 67295]
Zero == [hi |-> 0, lo |-> 0]

IsDigit(c) == \E i \in 1..10 : Digits[i] = c
DigitVal(c) == (CHOOSE i \in 1..10 : Digits[i] = c) - 1

Exceeds(n, max) == n.hi > max.hi \/ (n.hi = max.hi /\ n.lo > max.lo)

\* the largest value ParseUint(value, 10, 32) accepts, service.go:59
BitSizeMax == MaxUint32

\* strconv.ParseUint(value, 10, 32), service.go:59: digits only, the value
\* accumulated left to right, out of range as soon as it passes 2^32 - 1
\* (the 64-bit cutoff test cannot fire before that one does)
RECURSIVE ParseUintFrom(_, _, _)
ParseUintFrom(s, i, n) ==
    IF i > Len(s) THEN [val |-> n, err |-> NoErr]
    ELSE IF ~IsDigit(s[i]) THEN [val |-> Zero, err |-> ErrSyntax]
    ELSE LET lo10 == n.lo * 10 + DigitVal(s[i])
             n1 == [hi |-> n.hi * 10 + (lo10 \div Limb), lo |-> lo10 % Limb]
         IN IF Exceeds(n1, BitSizeMax) THEN [val |-> BitSizeMax, err |-> ErrRange]
            ELSE ParseUintFrom(s, i + 1, n1)

ParseUint(s) ==
    IF s = <<>> THEN [val |-> Zero, err |-> ErrSyntax]
    ELSE ParseUintFrom(s, 1, Zero)

\* convertStrToUint, service.go:56-66
convertStrToUint(value) ==
    LET r == ParseUint(value)
    IN IF r.err # NoErr THEN [val |-> Zero, err |-> r.err]
       ELSE [val |-> r.val, err |-> NoErr]

ZeroData == [APIKey |-> <<>>, escalationPolicyID |-> <<>>,
             autoResolveTimeout |-> Zero, acknowledgeTimeOut |-> Zero,
             servicePrefix |-> <<>>]

\* faulty variant: the error of the optional key is returned like the others
PrefixStepStrict(d, k) ==
    [err |-> k.err, data |-> [d EXCEPT !.servicePrefix = k.val]]

\* service.go:119-124
PrefixStep(d, k) ==
    [err |-> NoErr,
     data |-> [d EXCEPT !.servicePrefix = IF k.err # NoErr THEN <<"o", "s", "d">>
                                          ELSE k.val]]

\* ParsePDConfig, service.go:83-125
ParsePDConfig(fetched, sec) ==
    LET k1 == getSecretKey(sec, "PAGERDUTY_API_KEY")
        d1 == [ZeroData EXCEPT !.APIKey = k1.val]
        k2 == getSecretKey(sec, "ESCALATION_POLICY")
        d2 == [d1 EXCEPT !.escalationPolicyID = k2.val]
        k3 == getSecretKey(sec, "RESOLVE_TIMEOUT")
        u3 == convertStrToUint(k3.val)
        d3 == [d2 EXCEPT !.autoResolveTimeout = u3.val]
        k4 == getSecretKey(sec, "ACKNOWLEDGE_TIMEOUT")
        u4 == convertStrToUint(k4.val)
        d4 == [d3 EXCEPT !.acknowledgeTimeOut = u4.val]
        k5 == getSecretKey(sec, "SERVICE_PREFIX")
    IN IF ~fetched THEN [err |-> ErrGet, data |-> ZeroData]
       ELSE IF k1.err # NoErr THEN [err |-> k1.err, data |-> d1]
       ELSE IF k2.err # NoErr THEN [err |-> k2.err, data |-> d2]
       ELSE IF k3.err # NoErr THEN [err |-> k3.err, data |-> d2]
       ELSE IF u3.err # NoErr THEN [err |-> u3.err, data |-> d3]
       ELSE IF k4.err # NoErr THEN [err |-> k4.err, data |-> d3]
       ELSE IF u4.err # NoErr THEN [err |-> u4.err, data |-> d4]
       ELSE PrefixStep(d4, k5)

NotParsed == [done |-> FALSE, err |-> NoErr, data |-> ZeroData]

ParseIdle ==
    /\ pdAPISecret = [fetched |-> FALSE, Data |-> <<>>]
    /\ parsed = NotParsed

ParseInit ==
    /\ \E a \in KeyVals, e \in KeyVals, r \in TimeoutVals, k \in TimeoutVals,
          sp \in PrefixVals, f \in BOOLEAN :
          pdAPISecret = [fetched |-> f,
                    Data |-> [PAGERDUTY_API_KEY |-> a, ESCALATION_POLICY |-> e,
                              RESOLVE_TIMEOUT |-> r, ACKNOWLEDGE_TIMEOUT |-> k,
                              SERVICE_PREFIX |-> sp]]
    /\ parsed = NotParsed

\* one call of ParsePDConfig on the Secret
Parse ==
    /\ ~parsed.done
    /\ LET r == ParsePDConfig(pdAPISecret.fetched, pdAPISecret.Data)
       IN parsed' = [done |-> TRUE, err |-> r.err, data |-> r.data]
    /\ UNCHANGED pdAPISecret
    /\ UNCHANGED notParse

\* ------------------------------------------------------------------------
\* GetVaultSecret (connection.go)
\* ------------------------------------------------------------------------
\* last tick of the clock
MaxTime == 2

\* filesystem calls that fail in one run
MaxFaults == 1

\* the clock counts ticks of TickHours hours
TickHours == 4

\* time.Hour * time.Duration(-6), connection.go:161
StaleHours == 6

VaultKeys == {"VAULT_URL", "VAULT_TOKEN", "VAULT_MOUNT", "VAULT_KEY",
              "VAULT_PROPERTY", "VAULT_PATH"}
VaultKeyOrder == <<"VAULT_URL", "VAULT_TOKEN", "VAULT_MOUNT", "VAULT_KEY",
                   "VAULT_PROPERTY", "VAULT_PATH">>

Paths == {<<"P1">>, <<"P2">>}

V1 == <<"a", "b">>
V2 == <<"c">>

\* the Secret holding the Vault connection parameters, for one VAULT_PATH
VaultConfigValue(k, path) ==
    IF k = "VAULT_MOUNT" THEN Present(<<"m">>)
    ELSE IF k = "VAULT_PROPERTY" THEN Present(<<"p">>)
    ELSE IF k = "VAULT_PATH" THEN Present(path)
    ELSE Present(<<"x">>)

NoData == [Mount |-> <<>>, Property |-> <<>>, Path |-> <<>>]

\* getDataKey, connection.go:51-62
getDataKey(d, key) ==
    IF ~d[key].has THEN [val |-> <<>>, err |-> <<key, " is not set.">>]
    ELSE IF Len(d[key].v) <= 0 THEN [val |-> <<>>, err |-> <<key, " is empty">>]
    ELSE [val |-> d[key].v, err |-> NoErr]

RECURSIVE FirstKeyErr(_, _)
FirstKeyErr(cfg, i) ==
    IF i > Len(VaultKeyOrder) THEN NoErr
    ELSE LET r == getDataKey(cfg, VaultKeyOrder[i])
         IN IF r.err # NoErr THEN r.err ELSE FirstKeyErr(cfg, i + 1)

ErrGetVault == <<"secrets \"vault-config\" not found">>

\* connection.go:122-157
ResolveVaultConfig(found, cfg) ==
    IF ~found THEN [err |-> ErrGetVault, data |-> NoData]
    ELSE IF FirstKeyErr(cfg, 1) # NoErr
         THEN [err |-> FirstKeyErr(cfg, 1), data |-> NoData]
    ELSE [err |-> NoErr,
          data |-> [Mount |-> getDataKey(cfg, "VAULT_MOUNT").val,
                    Property |-> getDataKey(cfg, "VAULT_PROPERTY").val,
                    Path |-> getDataKey(cfg, "VAULT_PATH").val]]

\* faulty variant: the cache file is named after the secret path too
TempFilePathWithPath(d) ==
    <<"/tmp/">> \o d.Mount \o <<"-">> \o d.Property \o <<"-">> \o d.Path

\* fmt.Sprintf("/tmp/%v-%v", data.Mount, data.Property), connection.go:159
TempFilePath(d) == <<"/tmp/">> \o d.Mount \o <<"-">> \o d.Property

\* fmt.Sprintf("%v/data/%v", data.Mount, data.Path), connection.go:77
VaultFullPath(d) == d.Mount \o <<"/data/">> \o d.Path

\* faulty variant: the window is compared the other way round
IsFreshTakenForStale(mtime, t) == ~(mtime * TickHours < t * TickHours - StaleHours)

\* tempFile.ModTime().Before(time.Now().Add(-6h)), connection.go:161
IsStale(mtime, t) == mtime * TickHours < t * TickHours - StaleHours

\* what client.Logical().Read returns for a path: nothing stored there (a
\* nil *Secret), a payload whose "data" is no map, or a KV-v2 payload
NoSecret == [kind |-> "nil", data |-> {}]
NotAMap == [kind |-> "notmap", data |-> {}]
KV(m) == [kind |-> "secret", data |-> m]

VaultStates ==
    {[fp \in {VaultFullPath([NoData EXCEPT !.Mount = <<"m">>, !.Path = q]) : q \in Paths}
        |-> IF fp = <<"m", "/data/", "P1">>
            THEN KV({[prop |-> <<"p">>, value |-> V1]})
            ELSE other] :
     other \in {KV({[prop |-> <<"p">>, value |-> V2]}),
                KV({[prop |-> <<"p">>, value |-> <<>>]}),
                KV({[prop |-> <<"q">>, value |-> V2]}),
                NoSecret, NotAMap}}

Ok(v) == [kind |-> "ok", val |-> v, err |-> NoErr]
Err(e) == [kind |-> "err", val |-> <<>>, err |-> e]
Panic == [kind |-> "panic", val |-> <<>>, err |-> <<"nil pointer dereference">>]
NoResult == [kind |-> "none", val |-> <<>>, err |-> NoErr]

\* queryVault, connection.go:76-118.  A path with nothing stored makes
\* Read return a nil secret, which line 92 dereferences.
queryVault(d, reachable) ==
    LET v == vault[VaultFullPath(d)]
        hits == {e \in v.data : e.prop = d.Property}
    IN IF ~reachable THEN Err(<<"connection refused">>)
       ELSE IF v.kind = "nil" THEN Panic
       ELSE IF v.kind = "notmap" THEN Err(<<"Error parsing secret data">>)
       ELSE IF hits = {} THEN Err(d.Property \o <<" not set in vault">>)
       ELSE LET value == (CHOOSE e \in hits : TRUE).value
            IN IF Len(value) <= 0 THEN Err(d.Property \o <<" is empty">>)
               ELSE Ok(value)

FileAt(name) == {f \in files : f.name = name}
Exists(name) == FileAt(name) # {}
TheFile(name) == CHOOSE f \in files : f.name = name

\* file.WriteString on a freshly opened descriptor: the bytes go to
\* offset 0 and what the file held beyond them stays
Overwrite(old, w) == w \o SubSeq(old, Len(w) + 1, Len(old))

NoVH == [found |-> "none", peer |-> FALSE, remoteReads |-> 0, fileWrites |-> 0,
         fileReads |-> 0, fsErr |-> FALSE, remoteErr |-> FALSE,
         read |-> "none", readContent |-> <<>>, rm2 |-> "none",
         last |-> NoResult, result |-> NoResult]

VaultInit ==
    /\ now = 0
    /\ files = {}
    /\ vault \in VaultStates
    /\ faultsLeft = MaxFaults
    /\ vpc = [p \in Procs |-> "idle"]
    /\ vdata = [p \in Procs |-> NoData]
    /\ secret = [p \in Procs |-> <<>>]
    /\ fd = [p \in Procs |-> "none"]
    /\ vh = [p \in Procs |-> NoVH]

VaultIdle ==
    /\ now = 0
    /\ files = {}
    /\ vault = <<>>
    /\ faultsLeft = 0
    /\ vpc = [p \in Procs |-> "idle"]
    /\ vdata = [p \in Procs |-> NoData]
    /\ secret = [p \in Procs |-> <<>>]
    /\ fd = [p \in Procs |-> "none"]
    /\ vh = [p \in Procs |-> NoVH]

\* the call ends with result r
Finish(p, r, h) ==
    /\ vpc' = [vpc EXCEPT ![p] = "done"]
    /\ vh' = [vh EXCEPT ![p] = [h EXCEPT !.result = r]]

\* GetVaultSecret entry: osc.Get and the six getDataKey, connection.go:121-157
VBegin(p) ==
    /\ vpc[p] = "idle"
    /\ \E path \in Paths, found \in BOOLEAN,
          bad \in {"none", "VAULT_PATH"},
          v \in {Missing, Present(<<>>)} :
          LET cfg == [k \in VaultKeys |->
                         IF k = bad THEN v ELSE VaultConfigValue(k, path)]
              r == ResolveVaultConfig(found, cfg)
          IN IF r.err # NoErr
               THEN /\ Finish(p, Err(r.err), NoVH)
                    /\ UNCHANGED vdata
               ELSE /\ vdata' = [vdata EXCEPT ![p] = r.data]
                    /\ vpc' = [vpc EXCEPT ![p] = "stat"]
                    /\ vh' = [vh EXCEPT ![p] = NoVH]
    /\ UNCHANGED <<now, files, vault, faultsLeft, secret, fd>>
    /\ UNCHANGED notVault

\* a fresh cache file left by a call for the same mount and property and
\* another path
PeerCached(d) ==
    \E f \in files :
        /\ f.owner.Mount = d.Mount
        /\ f.owner.Property = d.Property
        /\ f.owner.Path # d.Path
        /\ f.cached
        /\ (now - f.mtime) * TickHours <= StaleHours

\* how old the file is at Stat time: modified less than, exactly or more
\* than StaleHours ago
AgeClass(mtime) ==
    IF (now - mtime) * TickHours < StaleHours THEN "younger"
    ELSE IF (now - mtime) * TickHours = StaleHours THEN "exactly"
    ELSE "older"

\* os.Stat and the freshness test, connection.go:160-161.  A Stat error
\* other than not-exist leaves tempFile nil, and ModTime() is called on it.
VStat(p) ==
    /\ vpc[p] = "stat"
    /\ LET name == TempFilePath(vdata[p])
           h == [vh[p] EXCEPT !.peer = PeerCached(vdata[p])]
       IN \/ /\ faultsLeft > 0
             /\ faultsLeft' = faultsLeft - 1
             /\ Finish(p, Panic, [vh[p] EXCEPT !.fsErr = TRUE])
          \/ /\ ~Exists(name)
             /\ vpc' = [vpc EXCEPT ![p] = "query"]
             /\ vh' = [vh EXCEPT ![p] = [h EXCEPT !.found = "absent"]]
             /\ UNCHANGED faultsLeft
          \/ /\ Exists(name)
             /\ vpc' = [vpc EXCEPT ![p] =
                          IF IsStale(TheFile(name).mtime, now) THEN "query"
                          ELSE "read"]
             /\ vh' = [vh EXCEPT ![p] =
                          [h EXCEPT !.found = AgeClass(TheFile(name).mtime)]]
             /\ UNCHANGED faultsLeft
    /\ UNCHANGED <<now, files, vault, vdata, secret, fd>>
    /\ UNCHANGED notVault

\* secret, err := data.queryVault(), connection.go:162-165
VQuery(p) ==
    /\ vpc[p] = "query"
    /\ \E reachable \in BOOLEAN :
          LET r == queryVault(vdata[p], reachable)
              h == [vh[p] EXCEPT !.remoteReads = @ + 1, !.last = r,
                                 !.remoteErr = @ \/ r.kind # "ok"]
          IN IF r.kind = "ok"
               THEN /\ secret' = [secret EXCEPT ![p] = r.val]
                    /\ vpc' = [vpc EXCEPT ![p] = "remove"]
                    /\ vh' = [vh EXCEPT ![p] = h]
               ELSE /\ Finish(p, r, h)
                    /\ UNCHANGED secret
    /\ UNCHANGED <<now, files, vault, faultsLeft, vdata, fd>>
    /\ UNCHANGED notVault

\* os.Remove(path): the name goes, descriptors open on the file keep it
Unlink(name) ==
    /\ files' = files \ FileAt(name)
    /\ fd' = [q \in Procs |->
                 IF fd[q] = "linked" /\ TempFilePath(vdata[q]) = name
                 THEN "orphan" ELSE fd[q]]

\* os.Remove(path) in saveSecret, connection.go:36 (its error is dropped)
VSaveRemove(p) ==
    /\ vpc[p] = "remove"
    /\ LET name == TempFilePath(vdata[p])
       IN \/ /\ Exists(name)
             /\ Unlink(name)
             /\ UNCHANGED <<vh, faultsLeft>>
          \/ /\ Exists(name)
             /\ faultsLeft > 0
             /\ faultsLeft' = faultsLeft - 1
             /\ vh' = [vh EXCEPT ![p].fsErr = TRUE]
             /\ UNCHANGED <<files, fd>>
          \/ /\ ~Exists(name)
             /\ UNCHANGED <<files, fd, vh, faultsLeft>>
    /\ vpc' = [vpc EXCEPT ![p] = "create"]
    /\ UNCHANGED <<now, vault, vdata, secret>>
    /\ UNCHANGED notVault

\* os.Create(path) in saveSecret, connection.go:37-41, and 167-170 on error
VSaveCreate(p) ==
    /\ vpc[p] = "create"
    /\ LET name == TempFilePath(vdata[p])
       IN \/ /\ faultsLeft > 0
             /\ faultsLeft' = faultsLeft - 1
             /\ Finish(p, Ok(secret[p]), [vh[p] EXCEPT !.fsErr = TRUE])
             /\ UNCHANGED <<files, fd>>
          \/ /\ files' = (files \ FileAt(name)) \cup
                            {[name |-> name, content |-> <<>>, mtime |-> now,
                              owner |-> vdata[p], cached |-> FALSE]}
             /\ fd' = [fd EXCEPT ![p] = "linked"]
             /\ vpc' = [vpc EXCEPT ![p] = "write"]
             /\ UNCHANGED <<vh, faultsLeft>>
    /\ UNCHANGED <<now, vault, vdata, secret>>
    /\ UNCHANGED notVault

\* the file after p wrote w through its descriptor
Written(p, w, whole) ==
    LET name == TempFilePath(vdata[p])
        f == TheFile(name)
    IN IF fd[p] = "linked" /\ (whole \/ w # <<>>)
       THEN (files \ {f}) \cup
               {[name |-> name, content |-> Overwrite(f.content, w),
                 mtime |-> now, owner |-> vdata[p], cached |-> whole]}
       ELSE files

\* file.WriteString(value) in saveSecret, connection.go:42-48, and 167-170
\* on error
VSaveWrite(p) ==
    /\ vpc[p] = "write"
    /\ \/ /\ files' = Written(p, secret[p], TRUE)
          /\ vpc' = [vpc EXCEPT ![p] = "read"]
          /\ vh' = [vh EXCEPT ![p].fileWrites = @ + 1]
          /\ UNCHANGED faultsLeft
       \/ /\ faultsLeft > 0
          /\ faultsLeft' = faultsLeft - 1
          /\ \E k \in 0..(Len(secret[p]) - 1) :
                files' = Written(p, SubSeq(secret[p], 1, k), FALSE)
          /\ Finish(p, Ok(secret[p]),
                    [vh[p] EXCEPT !.fileWrites = @ + 1, !.fsErr = TRUE])
    /\ fd' = [fd EXCEPT ![p] = "none"]
    /\ UNCHANGED <<now, vault, vdata, secret>>
    /\ UNCHANGED notVault

\* faulty variant: a failed read starts the fetch-and-save path over
ReadFailureRetry == "query"

\* where the call goes when ioutil.ReadFile fails, connection.go:174-177
ReadFailureNext == "remove2"

\* ioutil.ReadFile(tempFilePath), connection.go:173-180
VReadFile(p) ==
    /\ vpc[p] = "read"
    /\ LET name == TempFilePath(vdata[p])
           h == [vh[p] EXCEPT !.fileReads = @ + 1]
       IN \/ /\ Exists(name)
             /\ Finish(p, Ok(TheFile(name).content),
                       [h EXCEPT !.read = "ok",
                                 !.readContent = TheFile(name).content])
             /\ UNCHANGED faultsLeft
          \/ /\ Exists(name)
             /\ faultsLeft > 0
             /\ faultsLeft' = faultsLeft - 1
             /\ vpc' = [vpc EXCEPT ![p] = ReadFailureNext]
             /\ vh' = [vh EXCEPT ![p] =
                         [h EXCEPT !.read = "failedExisting", !.fsErr = TRUE]]
          \/ /\ ~Exists(name)
             /\ vpc' = [vpc EXCEPT ![p] = ReadFailureNext]
             /\ vh' = [vh EXCEPT ![p] =
                         [h EXCEPT !.read = "failedAbsent", !.fsErr = TRUE]]
             /\ UNCHANGED faultsLeft
    /\ UNCHANGED <<now, files, vault, vdata, secret, fd>>
    /\ UNCHANGED notVault

\* os.Remove(tempFilePath) after the failed read, connection.go:176
VRemove2(p) ==
    /\ vpc[p] = "remove2"
    /\ LET name == TempFilePath(vdata[p])
       IN \/ /\ Exists(name)
             /\ Unlink(name)
             /\ vh' = [vh EXCEPT ![p].rm2 = "removed"]
             /\ UNCHANGED faultsLeft
          \/ /\ Exists(name)
             /\ faultsLeft > 0
             /\ faultsLeft' = faultsLeft - 1
             /\ vh' = [vh EXCEPT ![p].rm2 = "left", ![p].fsErr = TRUE]
             /\ UNCHANGED <<files, fd>>
          \/ /\ ~Exists(name)
             /\ vh' = [vh EXCEPT ![p].rm2 = "absent"]
             /\ UNCHANGED <<files, fd, faultsLeft>>
    /\ vpc' = [vpc EXCEPT ![p] = "query2"]
    /\ UNCHANGED <<now, vault, vdata, secret>>
    /\ UNCHANGED notVault

\* return data.queryVault(), connection.go:177
VQuery2(p) ==
    /\ vpc[p] = "query2"
    /\ \E reachable \in BOOLEAN :
          LET r == queryVault(vdata[p], reachable)
          IN Finish(p, r, [vh[p] EXCEPT !.remoteReads = @ + 1, !.last = r,
                                        !.remoteErr = @ \/ r.kind # "ok"])
    /\ UNCHANGED <<now, files, vault, faultsLeft, vdata, secret, fd>>
    /\ UNCHANGED notVault

\* the caller has the result; its Data and locals are gone
VReturn(p) ==
    /\ vpc[p] = "done"
    /\ vpc' = [vpc EXCEPT ![p] = "idle"]
    /\ vdata' = [vdata EXCEPT ![p] = NoData]
    /\ secret' = [secret EXCEPT ![p] = <<>>]
    /\ vh' = [vh EXCEPT ![p] = NoVH]
    /\ UNCHANGED <<now, files, vault, faultsLeft, fd>>
    /\ UNCHANGED notVault

\* time passes
Tick ==
    /\ now < MaxTime
    /\ now' = now + 1
    /\ UNCHANGED <<files, vault, faultsLeft, vpc, vdata, secret, fd, vh>>
    /\ UNCHANGED notVault

InitVault == VaultInit /\ PDIdle /\ ParseIdle

NextVault ==
    \/ Tick
    \/ \E p \in Procs :
          \/ VBegin(p)
          \/ VStat(p)
          \/ VQuery(p)
          \/ VSaveRemove(p)
          \/ VSaveCreate(p)
          \/ VSaveWrite(p)
          \/ VReadFile(p)
          \/ VRemove2(p)
          \/ VQuery2(p)
          \/ VReturn(p)

SpecVault == InitVault /\ [][NextVault]_vars

InitParse == ParseInit /\ PDIdle /\ VaultIdle

NextParse == Parse

SpecParse == InitParse /\ [][NextParse]_vars

InitProvision == PDInit /\ ParseIdle /\ VaultIdle

NextProvision ==
    \E p \in Procs :
        \/ Begin(p)
        \/ GetEscalationPolicy(p)
        \/ UpstreamCreateService(p)
        \/ ListServices(p)
        \/ CreateIntegration(p)
        \/ Return(p)
        \/ DeleteService(p)

SpecProvision == InitProvision /\ [][NextProvision]_vars

\* ------------------------------------------------------------------------
\* Claims about CreateService (checked under SpecProvision)
\* ------------------------------------------------------------------------
\* the call of p has produced its result (and no later call has begun)
Finished(p) == pc[p] \in {"done", "idle"} /\ hist[p].result # "none"

\* the adopt case: duplicate-name error, then a list holding an exact match
AdoptCase(p) ==
    /\ Finished(p)
    /\ hist[p].dupErr
    /\ hist[p].listOk
    /\ hist[p].exactID # NoID

\* C1 as stated: in the adopt case the call adopts the existing service's
\* ID, creates no service, creates exactly one integration on the adopted
\* service and returns that integration's ID.
C1_AdoptAlwaysCreatesIntegration ==
    \A p \in Procs :
        AdoptCase(p) =>
            /\ data[p].ServiceID = hist[p].exactID
            /\ hist[p].createdSvc = NoID
            /\ hist[p].intTried = 1
            /\ hist[p].createdInt # NoID
            /\ hist[p].intOn = hist[p].exactID
            /\ hist[p].result = "ok"
            /\ hist[p].ret = hist[p].createdInt

\* C1 amended: in the adopt case the call adopts the existing service's ID,
\* creates no service and calls CreateIntegration exactly once, on the
\* adopted service; when that call succeeds exactly one integration is
\* created and its ID stored and returned, when it fails the call returns
\* the error and has created no integration.
C1_AdoptThenOneIntegrationAttempt ==
    \A p \in Procs :
        AdoptCase(p) =>
            /\ data[p].ServiceID = hist[p].exactID
            /\ hist[p].createdSvc = NoID
            /\ hist[p].intTried = 1
            /\ hist[p].intOn = hist[p].exactID
            /\ hist[p].result = "ok" =>
                  /\ hist[p].createdInt # NoID
                  /\ hist[p].ret = hist[p].createdInt
                  /\ data[p].IntegrationID = hist[p].createdInt
            /\ hist[p].result = "err" =>
                  /\ hist[p].createdInt = NoID
                  /\ err[p] # NoErr
                  /\ data[p].IntegrationID = hist[p].pre.IntegrationID

\* an adopting call that succeeded, with a near-named service listed too
C1_Witness ==
    \E p \in Procs :
        /\ AdoptCase(p)
        /\ hist[p].result = "ok"
        /\ \E s \in services : s.name = NearName

\* C2: when the escalation-policy lookup fails the call returns an error,
\* attempts no CreateService, ListServices or CreateIntegration, and leaves
\* Data.ServiceID and Data.IntegrationID as they were.
C2_PolicyFailureAborts ==
    \A p \in Procs :
        hist[p].policyFailed =>
            /\ pc[p] \in {"done", "idle"}
            /\ hist[p].result = "err"
            /\ err[p] = ErrPolicy
            /\ ~hist[p].createTried
            /\ ~hist[p].listTried
            /\ hist[p].intTried = 0
            /\ hist[p].createdSvc = NoID
            /\ hist[p].createdInt = NoID
            /\ data[p] = hist[p].pre

\* a call whose policy lookup failed while its Data held a ServiceID
C2_Witness ==
    \E p \in Procs :
        /\ hist[p].policyFailed
        /\ pc[p] = "done"
        /\ data[p].ServiceID # NoID

\* C7: with only CreateService calls (no service deleted), at most one
\* service with the derived name is ever created, every call creates at
\* most one integration and exactly one when it succeeds, and k successful
\* calls leave k integrations, all on the one service of that name.
C7_OneServiceKIntegrations ==
    /\ \A p \in Procs :
          /\ hist[p].intTried <= 1
          /\ (hist[p].result = "ok") <=> (hist[p].createdInt # NoID)
    /\ ~anyDeleted =>
          /\ Cardinality(createdSvcs) <= 1
          /\ Cardinality({s \in services : s.name = DerivedName}) <= 1
          /\ Cardinality(integrations) = okCalls
          /\ \A i \in integrations :
                \E s \in services : s.id = i.svc /\ s.name = DerivedName

\* two successful calls, two integrations on one created service
C7_Witness ==
    /\ ~anyDeleted
    /\ okCalls = 2
    /\ Cardinality(createdSvcs) = 1
    /\ Cardinality(integrations) = 2

\* C8 as stated: after any call, a service created or adopted, or a stored
\* Data.ServiceID, always comes with an integration created by that call.
C8_NoIntermediateState ==
    \A p \in Procs :
        Finished(p) =>
            ((hist[p].createdSvc # NoID \/ newSvc[p] # NoID)
                => hist[p].createdInt # NoID)

\* C8 amended: a call that returns successfully has stored the ID of the
\* service it created or adopted and the ID of the one integration it
\* created on it; a call that returns an error has created no integration
\* and left Data.IntegrationID alone, and either it stored nothing (no
\* service created or adopted) or it failed in CreateIntegration, leaving
\* the created or adopted service's ID in Data.ServiceID without an
\* integration of this call.
C8_PartialStateOnlyAfterIntegrationFailure ==
    \A p \in Procs :
        Finished(p) =>
            /\ hist[p].result = "ok" =>
                  /\ newSvc[p] # NoID
                  /\ data[p].ServiceID = newSvc[p]
                  /\ hist[p].createdInt # NoID
                  /\ hist[p].intOn = newSvc[p]
                  /\ data[p].IntegrationID = hist[p].createdInt
            /\ hist[p].result = "err" =>
                  /\ hist[p].createdInt = NoID
                  /\ data[p].IntegrationID = hist[p].pre.IntegrationID
                  /\ \/ /\ hist[p].intTried = 0
                        /\ newSvc[p] = NoID
                        /\ hist[p].createdSvc = NoID
                        /\ data[p].ServiceID = hist[p].pre.ServiceID
                     \/ /\ hist[p].intTried = 1
                        /\ newSvc[p] # NoID
                        /\ hist[p].createdSvc \in {NoID, newSvc[p]}
                        /\ data[p].ServiceID = newSvc[p]

\* the partial state: a service created by the call, its ID stored, and the
\* call returned an error without an integration
C8_Witness ==
    \E p \in Procs :
        /\ Finished(p)
        /\ hist[p].result = "err"
        /\ hist[p].createdSvc # NoID
        /\ data[p].ServiceID = hist[p].createdSvc
        /\ hist[p].createdInt = NoID

\* ------------------------------------------------------------------------
\* Claims about ParsePDConfig (checked under SpecParse)
\* ------------------------------------------------------------------------
RequiredKeys == {"PAGERDUTY_API_KEY", "ESCALATION_POLICY", "RESOLVE_TIMEOUT",
                 "ACKNOWLEDGE_TIMEOUT"}
TimeoutKeys == {"RESOLVE_TIMEOUT", "ACKNOWLEDGE_TIMEOUT"}

MissingOrEmpty(d, key) == ~d[key].has \/ d[key].v = <<>>

RECURSIVE StripZeros(_)
StripZeros(s) ==
    IF s # <<>> /\ Head(s) = "0" THEN StripZeros(Tail(s)) ELSE s

\* s <= t for digit strings of one length
RECURSIVE DigitsLeq(_, _)
DigitsLeq(s, t) ==
    IF s = <<>> THEN TRUE
    ELSE IF DigitVal(Head(s)) # DigitVal(Head(t))
         THEN DigitVal(Head(s)) < DigitVal(Head(t))
    ELSE DigitsLeq(Tail(s), Tail(t))

\* s is a decimal numeral of a value below 2^32
IsDecimalUint32(s) ==
    /\ s # <<>>
    /\ \A i \in 1..Len(s) : IsDigit(s[i])
    /\ LET t == StripZeros(s)
       IN \/ Len(t) < 10
          \/ /\ Len(t) = 10
             /\ DigitsLeq(t, <<"4", "2", "9", "4", "9", "6", "7", "2", "9", "5">>)

\* C9: once the Secret is fetched, ParsePDConfig fails exactly when a
\* required key is missing or empty or a timeout is not a decimal
\* non-negative integer fitting in 32 bits; a missing or empty
\* SERVICE_PREFIX never fails it and yields "osd", a non-empty one is used
\* as is.
C9_ParsePDConfigErrors ==
    (parsed.done /\ pdAPISecret.fetched) =>
        LET d == pdAPISecret.Data
            bad == \/ \E key \in RequiredKeys : MissingOrEmpty(d, key)
                   \/ \E key \in TimeoutKeys : ~IsDecimalUint32(d[key].v)
        IN /\ (parsed.err # NoErr) <=> bad
           /\ ~bad =>
                 parsed.data.servicePrefix =
                    IF MissingOrEmpty(d, "SERVICE_PREFIX") THEN <<"o", "s", "d">>
                    ELSE d["SERVICE_PREFIX"].v

\* parsed without error: no SERVICE_PREFIX, a timeout at the 32-bit limit
C9_Witness ==
    /\ parsed.done
    /\ pdAPISecret.fetched
    /\ parsed.err = NoErr
    /\ ~pdAPISecret.Data["SERVICE_PREFIX"].has
    /\ parsed.data.servicePrefix = <<"o", "s", "d">>
    /\ parsed.data.autoResolveTimeout = MaxUint32
    /\ parsed.data.acknowledgeTimeOut = [hi |-> 0, lo |-> 300]

\* ------------------------------------------------------------------------
\* Claims about GetVaultSecret (checked under SpecVault)
\* ------------------------------------------------------------------------
\* Vault holds a non-empty value for d.Property at d's path
VaultHolds(d) ==
    /\ VaultFullPath(d) \in DOMAIN vault
    /\ \E e \in vault[VaultFullPath(d)].data : e.prop = d.Property /\ e.value # <<>>

VaultValue(d) ==
    (CHOOSE e \in vault[VaultFullPath(d)].data : e.prop = d.Property).value

\* the call of p is over and had resolved its configuration and its Stat
Statted(p) == vpc[p] = "done" /\ vh[p].found # "none"

ReadFailed(p) == vh[p].read \in {"failedExisting", "failedAbsent"}

\* C3 as stated: a file modified less than 6 hours ago is returned with no
\* remote read; an absent file, or one older than 6 hours, means exactly
\* one remote read and exactly one write of the file.
C3_FreshNoReadElseOneReadOneWrite ==
    \A p \in Procs :
        Statted(p) =>
            /\ vh[p].found = "younger" =>
                  /\ vh[p].result.kind = "ok"
                  /\ vh[p].read = "ok"
                  /\ vh[p].result.val = vh[p].readContent
                  /\ vh[p].remoteReads = 0
            /\ vh[p].found \in {"absent", "older"} =>
                  /\ vh[p].remoteReads = 1
                  /\ vh[p].fileWrites = 1

\* C3 amended: a file modified less than 6 hours ago whose read succeeds
\* is returned with no remote read and no write; for an absent file, or one
\* older than 6 hours, the call starts with a remote read, writes the file
\* at most once, and has done exactly one remote read and exactly one write
\* when the read-back of the file succeeds; a second remote read happens
\* only after a failed read-back.
C3_FreshnessWhenFileOpsSucceed ==
    \A p \in Procs :
        Statted(p) =>
            /\ (vh[p].found = "younger" /\ vh[p].read = "ok") =>
                  /\ vh[p].result = Ok(vh[p].readContent)
                  /\ vh[p].remoteReads = 0
                  /\ vh[p].fileWrites = 0
            /\ vh[p].found \in {"absent", "older"} =>
                  /\ vh[p].remoteReads \in {1, 2}
                  /\ vh[p].fileWrites <= 1
                  /\ vh[p].read = "ok" =>
                        /\ vh[p].remoteReads = 1
                        /\ vh[p].fileWrites = 1
                        /\ vh[p].result = Ok(vh[p].readContent)
                  /\ vh[p].remoteReads = 2 => ReadFailed(p)

\* a stale file refetched: one remote read, one write, the file read back
C3_Witness ==
    \E p \in Procs :
        /\ Statted(p)
        /\ vh[p].found = "older"
        /\ vh[p].read = "ok"
        /\ vh[p].remoteReads = 1
        /\ vh[p].fileWrites = 1
        /\ vh[p].result = Ok(VaultValue(vdata[p]))

\* C4 as stated: when the file exists and its read fails, the file is
\* deleted and the call does exactly one remote read in total, returns its
\* result and does not read the file again.
C4_ReadFailureOneRemoteReadInTotal ==
    \A p \in Procs :
        (vpc[p] = "done" /\ vh[p].read = "failedExisting") =>
            /\ vh[p].rm2 \in {"removed", "absent"}
            /\ vh[p].remoteReads = 1
            /\ vh[p].fileReads = 1
            /\ vh[p].result = vh[p].last

\* C4 amended: when the file exists and its read fails, os.Remove is called
\* on it once (its error ignored, so the file is gone only if that call
\* succeeds), then exactly one more remote read is done and its outcome is
\* the call's outcome, with no second read of the file; that makes one
\* remote read in total when the cache had been taken as fresh and two
\* when the call had just refetched and rewritten it.
C4_ReadFailureOneMoreRemoteRead ==
    \A p \in Procs :
        (vpc[p] = "done" /\ vh[p].read = "failedExisting") =>
            /\ vh[p].rm2 # "none"
            /\ vh[p].fileReads = 1
            /\ vh[p].last.kind # "none"
            /\ vh[p].result = vh[p].last
            /\ vh[p].remoteReads =
                  IF vh[p].found \in {"absent", "older"} THEN 2 ELSE 1
            /\ vh[p].fileWrites =
                  IF vh[p].found \in {"absent", "older"} THEN 1 ELSE 0

\* a refetched file whose read-back failed: two remote reads in the call
C4_Witness ==
    \E p \in Procs :
        /\ vpc[p] = "done"
        /\ vh[p].read = "failedExisting"
        /\ vh[p].found = "older"
        /\ vh[p].rm2 = "removed"
        /\ vh[p].remoteReads = 2
        /\ vh[p].result.kind = "ok"

\* C5: no filesystem error (stat, remove, create, write, read) makes the
\* call fail or abort while Vault is reachable and holds a non-empty value:
\* the call returns the value fetched from Vault, with no error.
C5_FilesystemErrorsNeverFatal ==
    \A p \in Procs :
        (/\ vpc[p] = "done"
         /\ vh[p].fsErr
         /\ ~vh[p].remoteErr
         /\ VaultHolds(vdata[p]))
            => vh[p].result = Ok(VaultValue(vdata[p]))

\* the values Vault holds for the property
CompleteValues ==
    {VaultValue([NoData EXCEPT !.Mount = <<"m">>, !.Property = <<"p">>, !.Path = q]) :
        q \in {r \in Paths :
                  VaultHolds([NoData EXCEPT !.Mount = <<"m">>,
                                            !.Property = <<"p">>, !.Path = r])}}

Quiescent == \A p \in Procs : vpc[p] \in {"idle", "done"}

\* C6: under any interleaving of calls (no filesystem call failing) every
\* call that returns without error returns a complete value of Vault, never
\* an empty or partial string, and once the calls are over the file holds
\* the complete value of its last writer.
C6_CacheNeverObservedCorrupted ==
    faultsLeft = MaxFaults =>
        /\ \A p \in Procs :
              (vpc[p] = "done" /\ vh[p].result.kind = "ok")
                  => vh[p].result.val \in CompleteValues
        /\ Quiescent =>
              \A f \in files : VaultHolds(f.owner) /\ f.content = VaultValue(f.owner)

\* C10 as stated: with a value cached for (mount, property) by a call for
\* another path, a call inside the 6-hour window returns the cached value
\* with no remote read, whatever Vault holds at its own path.
C10_OtherPathAlwaysServedFromCache ==
    \A p \in Procs :
        (vpc[p] = "done" /\ vh[p].peer) =>
            /\ vh[p].read = "ok"
            /\ vh[p].result = Ok(vh[p].readContent)
            /\ vh[p].remoteReads = 0

\* C10 amended: with a value cached for (mount, property) by a call for
\* another path, a call inside the 6-hour window whose read of the cache
\* file succeeds returns the file's content with no remote read and no
\* write, whatever Vault holds at its own path.
C10_OtherPathServedFromCacheWhenRead ==
    \A p \in Procs :
        (vpc[p] = "done" /\ vh[p].peer /\ vh[p].read = "ok") =>
            /\ vh[p].result = Ok(vh[p].readContent)
            /\ vh[p].remoteReads = 0
            /\ vh[p].fileWrites = 0

\* a call for P2, where Vault holds nothing, answered with P1's value
C10_Witness ==
    \E p \in Procs :
        /\ vpc[p] = "done"
        /\ vh[p].peer
        /\ vh[p].read = "ok"
        /\ vdata[p].Path = <<"P2">>
        /\ vault[VaultFullPath(vdata[p])] = NoSecret
        /\ vh[p].result = Ok(V1)

====
